---- MODULE Spec2Model ----
(***************************************************************************)
(* QuantumChannelSimulator (src/src/simulation/quantum_channel.py) as a    *)
(* state machine: every invocation of run walks validate_config,           *)
(* generate_states, apply_channel_effects, find_delay and                  *)
(* calculate_statistics, drawing from the process-wide numpy generator.    *)
(*                                                                         *)
(* Numbers.  A Python float is held as a count of halves (3 is 1.5), a     *)
(* Python int as itself.  dark_count_rate and sync_error_ppm are held in   *)
(* the units that absorb the code's factors 1E-12 and 1e-6, so that        *)
(* rate * time_bin * 1E-12 and sync_error_ppm * 1e-6 are plain products of *)
(* the model's numbers.  A probability computed by the channel model is a  *)
(* count of quarters.                                                      *)
(***************************************************************************)
EXTENDS Integers, Sequences, FiniteSets, TLC

(* ------------------------------ bounds -------------------------------- *)

\* number of states of the model's generator (its seeds are 0..RngStates-1)
RngStates == 16
\* number of distinct values one draw can take
RngLevels == 4
\* largest blockSize the inputs name
MaxBlock == 2
\* largest maxOffset the inputs name
MaxOffset == 1
\* largest delay a caller injects through apply_channel_effects(delay=...)
MaxDelayArg == 1

(* --------------------------- small helpers ---------------------------- *)

Abs(x) == IF x < 0 THEN -x ELSE x

RECURSIVE Pow10(_)
Pow10(k) == IF k <= 0 THEN 1 ELSE 10 * Pow10(k - 1)

RECURSIVE SumSeq(_)
SumSeq(s) == IF s = <<>> THEN 0 ELSE Head(s) + SumSeq(Tail(s))

(* ---------------------- the raw configuration ------------------------- *)

\* a value found in the request dictionary
Num(h) == [kind |-> "number", val |-> h]
Text == [kind |-> "str", val |-> 0]
Null == [kind |-> "NoneType", val |-> 0]

\* the fields validate_config reads, in the order it reads them
Schema ==
  << [group |-> "alice", key |-> "mu1", type |-> "float", name |-> "signal_power"],
     [group |-> "alice", key |-> "mu2", type |-> "float", name |-> "decoy_power"],
     [group |-> "alice", key |-> "p1", type |-> "float", name |-> "signal_prob"],
     [group |-> "bob", key |-> "darkCount", type |-> "float", name |-> "dark_count_rate"],
     [group |-> "bob", key |-> "timeBin", type |-> "float", name |-> "time_bin"],
     [group |-> "channel", key |-> "loss", type |-> "float", name |-> "channel_loss_db"],
     [group |-> "channel", key |-> "syncError", type |-> "float", name |-> "sync_error_ppm"],
     [group |-> "processing", key |-> "blockSize", type |-> "int", name |-> "block_size"],
     [group |-> "processing", key |-> "maxOffset", type |-> "int", name |-> "max_offset"] >>

\* float(x) of a number: the value itself (in halves)
PyFloat(h) == h

\* int(x) of a number: truncation toward zero (from halves to units)
PyInt(h) == IF h >= 0 THEN h \div 2 ELSE -((-h) \div 2)

\* what reading and coercing field i of the dictionary d does:
\* "ok", or the exception it raises
FieldOutcome(d, i) ==
  LET f == Schema[i] IN
  IF f.group \notin DOMAIN d
    THEN [exc |-> "KeyError", text |-> <<f.group>>]
  ELSE IF f.key \notin DOMAIN d[f.group]
    THEN [exc |-> "KeyError", text |-> <<f.key>>]
  ELSE IF d[f.group][f.key].kind = "NoneType"
    THEN [exc |-> "TypeError", text |-> <<f.type, "argument must be a string or a number">>]
  ELSE IF d[f.group][f.key].kind = "str"
    THEN [exc |-> "ValueError",
          text |-> IF f.type = "float" THEN <<"could not convert string to float">>
                   ELSE <<"invalid literal for int() with base 10">>]
  ELSE [exc |-> "ok", text |-> <<>>]

\* the first field whose reading raises, 0 when none does
FirstFailure(d) ==
  LET bad == {i \in 1..Len(Schema) : FieldOutcome(d, i).exc # "ok"} IN
  IF bad = {} THEN 0 ELSE CHOOSE i \in bad : \A j \in bad : i <= j

Coerce(d, i) ==
  LET f == Schema[i] v == d[f.group][f.key].val IN
  IF f.type = "int" THEN PyInt(v) ELSE PyFloat(v)

\* SimulationConfig(...) built from the nine coerced fields
BuildConfig(d) ==
  [signal_power |-> Coerce(d, 1), decoy_power |-> Coerce(d, 2),
   signal_prob |-> Coerce(d, 3), dark_count_rate |-> Coerce(d, 4),
   time_bin |-> Coerce(d, 5), channel_loss_db |-> Coerce(d, 6),
   sync_error_ppm |-> Coerce(d, 7), block_size |-> Coerce(d, 8),
   max_offset |-> Coerce(d, 9)]

\* validate_config: the configuration, or the exception that leaves it.
\* KeyError and ValueError are caught and raised again as ValueError with the
\* text of the caught exception; a TypeError is not caught.
validate_config(d) ==
  LET i == FirstFailure(d) IN
  IF i = 0 THEN [ok |-> TRUE, config |-> <<BuildConfig(d)>>, exc |-> "", text |-> <<>>]
  ELSE LET o == FieldOutcome(d, i) IN
    IF o.exc \in {"KeyError", "ValueError"}
      THEN [ok |-> FALSE, config |-> <<>>, exc |-> "ValueError",
            text |-> <<"Invalid configuration">> \o o.text]
      ELSE [ok |-> FALSE, config |-> <<>>, exc |-> o.exc, text |-> o.text]


(* --------------------- the inputs the model draws --------------------- *)

RawOf(mu1, mu2, p1, dc, tb, loss, se, bs, mo) ==
  [alice |-> [mu1 |-> Num(mu1), mu2 |-> Num(mu2), p1 |-> Num(p1)],
   bob |-> [darkCount |-> Num(dc), timeBin |-> Num(tb)],
   channel |-> [loss |-> Num(loss), syncError |-> Num(se)],
   processing |-> [blockSize |-> Num(bs), maxOffset |-> Num(mo)]]

\* powers 0.0 and 1.0; probabilities 0, 0.5, 1 and 1.5
PowerInputs == {0, 2}
ProbInputs == {0, 1, 2, 3}
DarkInputs == {0, 2}
LossInputs == {0, 20}
SyncInputs == {0, 1}
\* block sizes 0, 1 .. MaxBlock and MaxBlock + 0.5
BlockInputs == {0} \cup {2 * n : n \in 1..MaxBlock} \cup {2 * MaxBlock + 1}
\* offsets -1 and 0 .. MaxOffset
OffsetInputs == {-2} \cup {2 * n : n \in 0..MaxOffset}

NumericConfigs ==
  {RawOf(mu1, mu2, p1, dc, 2, loss, se, bs, mo) :
     mu1 \in PowerInputs, mu2 \in PowerInputs, p1 \in ProbInputs,
     dc \in DarkInputs, loss \in LossInputs, se \in SyncInputs,
     bs \in BlockInputs, mo \in OffsetInputs}

BaseRaw == RawOf(2, 0, 1, 0, 2, 0, 0, 2, 0)

Without(f, k) == [x \in DOMAIN f \ {k} |-> f[x]]

\* BaseRaw with field i absent and, when j # i, field j set to v
Defective(i, j, v) ==
  LET holed == [BaseRaw EXCEPT ![Schema[i].group] = Without(@, Schema[i].key)] IN
  IF j = i THEN holed ELSE [holed EXCEPT ![Schema[j].group][Schema[j].key] = v]

\* BaseRaw with one field absent, not a number, or None; with one group
\* absent; with a loss of 3100 dB; or with one field absent and another one
\* None or not a number
DefectConfigs ==
  {[BaseRaw EXCEPT ![Schema[i].group] = Without(@, Schema[i].key)] :
     i \in 1..Len(Schema)}
  \cup {[BaseRaw EXCEPT ![Schema[i].group][Schema[i].key] = v] :
     i \in 1..Len(Schema), v \in {Text, Null}}
  \cup {Without(BaseRaw, g) : g \in DOMAIN BaseRaw}
  \cup {RawOf(2, 0, 1, 0, 2, 6200, 0, 2, 0)}
  \cup {Defective(i, j, v) : i \in 1..Len(Schema), j \in 1..Len(Schema), v \in {Text, Null}}

RawConfigs == NumericConfigs \cup DefectConfigs

\* the delay argument of apply_channel_effects: <<>> is None (as run calls it)
DelayArgs == {<<>>} \cup {<<d>> : d \in 0..MaxDelayArg}

(* ------------------------- the random source -------------------------- *)

\* one step of the generator
RngStep(s) == (5 * s + 3) % RngStates

RECURSIVE RngAfter(_, _)
RngAfter(s, n) == IF n <= 0 THEN s ELSE RngAfter(RngStep(s), n - 1)

\* the value a draw in state s gives, in 0..RngLevels-1
Word(s) == (s * RngLevels) \div RngStates

\* n successive draws starting in state s
Words(s, n) == [i \in 1..n |-> Word(RngAfter(s, i - 1))]

\* np.random.rand() < p for a draw w and p = num/den (den > 0)
Below(w, num, den) == w * den < num * RngLevels

\* np.random.randint(low, high) of one draw: an integer in low..high-1
\* (the draw itself, offset by low, for draws smaller than the range)
randint(w, low, high) == low + (w % (high - low))

\* np.random.choice([a, b], p=[p, 1 - p], size=n): does it raise?
\* (p in halves; a negative probability or a negative size is a ValueError)
ChoiceRaises(p, n) == p < 0 \/ 2 - p < 0 \/ n < 0

\* the index np.random.choice picks for each draw: 0 (the first value)
\* when the draw is below p, else 1
ChoiceIndex(ws, p) == [i \in 1..Len(ws) |-> IF Below(ws[i], p, 2) THEN 0 ELSE 1]

(* ------------------------- the stage functions ------------------------ *)

\* a generate_states that returns the indices drawn instead of the powers
StatesOfIndices(config, picks) == picks

\* generate_states, lines 84-88: the values picked
StatesOf(config, picks) ==
  [i \in 1..Len(picks) |->
     IF picks[i] = 0 THEN config.signal_power ELSE config.decoy_power]

\* an indicator that marks the decoy pulses
IntensityOfDecoy(config, states) ==
  [i \in 1..Len(states) |-> IF states[i] = config.decoy_power THEN 1 ELSE 0]

\* generate_states, line 91: (states == config.signal_power).astype(int)
IntensityOf(config, states) ==
  [i \in 1..Len(states) |-> IF states[i] = config.signal_power THEN 1 ELSE 0]

\* 10 ** (config.channel_loss_db / 10) raises OverflowError past 1e308
AttenuationOverflows(config) == config.channel_loss_db > 2 * 10 * 308

\* attenuation = 10 ** (config.channel_loss_db / 10), for the whole decades
\* the inputs name
Attenuation(config) == Pow10(config.channel_loss_db \div 20)

\* 1 - exp(-x) for x = q/4, in quarters rounded up (so that a draw k/4 is
\* below the quarter count exactly when it is below the value); 0 at 0,
\* negative below
OneMinusExp(q) ==
  IF q <= 0 THEN q
  ELSE IF q <= 2 THEN q
  ELSE IF q <= 5 THEN 3
  ELSE 4

\* P_dark = 1 - np.exp(-config.dark_count_rate * config.time_bin * 1E-12)
PDark(config) == OneMinusExp(config.dark_count_rate * config.time_bin)

\* detection_prob = 1 - np.exp(-extended_states * attenuation) + P_dark,
\* not clamped to [0, 1]
DetectionProb(config, power) ==
  OneMinusExp(2 * power * Attenuation(config)) + PDark(config)

\* a concatenation that pads the block at its end only
ExtendedStatesEndOnly(front_pad, states, end_pad) == states \o end_pad

\* extended_states = np.concatenate((front_pad, states, end_pad))
ExtendedStates(front_pad, states, end_pad) == front_pad \o states \o end_pad

\* np.random.rand(len(detection_prob)) < detection_prob
Detections(config, extended_states, ws) ==
  [i \in 1..Len(extended_states) |->
     Below(ws[i], DetectionProb(config, extended_states[i]), 4)]

\* the correlation in mode='full': every overlap, the inputs zero-padded
CorrelateFull(intensity, detections) ==
  LET N == Len(intensity) L == Len(detections) IN
  IF N = 0 \/ L = 0 THEN <<>>
  ELSE [j \in 1..(L + N - 1) |->
          SumSeq([k \in 1..N |->
            LET m == k + L - j IN
            IF m \in 1..L /\ detections[m] THEN intensity[k] ELSE 0])]

\* scipy.signal.correlate(intensity, detections, mode='valid', method='fft'):
\* the shorter input slides over the longer one and the result is reversed,
\* entry i (from 0) being sum_k intensity[k] * detections[k + (L - N) - i];
\* integer inputs give the rounded, exact sums.  Empty for an empty input.
Correlate(intensity, detections) ==
  LET N == Len(intensity) L == Len(detections) IN
  IF N = 0 \/ L = 0 THEN <<>>
  ELSE [j \in 1..(L - N + 1) |->
          SumSeq([k \in 1..N |->
            IF detections[k + (L - N) - (j - 1)] THEN intensity[k] ELSE 0])]

\* an argmax that keeps the last of several largest entries
ArgMaxLast(a) ==
  (CHOOSE j \in 1..Len(a) :
     /\ \A k \in 1..Len(a) : a[k] <= a[j]
     /\ \A k \in (j + 1)..Len(a) : a[k] < a[j]) - 1

\* np.argmax: the first index (from 0) of a largest entry of a non-empty array
ArgMax(a) ==
  (CHOOSE j \in 1..Len(a) :
     /\ \A k \in 1..Len(a) : a[k] <= a[j]
     /\ \A k \in 1..(j - 1) : a[k] < a[j]) - 1

\* np.arange(len(cross_corr)) - len(cross_corr) // 2
TimePoints(n) == [j \in 1..n |-> (j - 1) - (n \div 2)]

\* a comparison with < in place of <=
SyncSuccessStrict(config, optimal_lag, actual_delay) ==
  2 * Abs(optimal_lag - actual_delay) < Abs(config.sync_error_ppm * config.block_size)

\* abs(optimal_lag - actual_delay) <= abs(sync_error_ppm * 1e-6 * block_size)
\* (both sides doubled: sync_error_ppm is in halves)
SyncSuccess(config, optimal_lag, actual_delay) ==
  2 * Abs(optimal_lag - actual_delay) <= Abs(config.sync_error_ppm * config.block_size)

\* a float quotient num/den as numpy computes it: a zero divisor gives
\* nan or an infinity (with a RuntimeWarning), never an exception
FloatDiv(num, den) ==
  IF den = 0
    THEN [kind |-> IF num = 0 THEN "nan" ELSE IF num > 0 THEN "inf" ELSE "-inf",
          num |-> 0, den |-> 0]
  ELSE IF den < 0 THEN [kind |-> "finite", num |-> -num, den |-> -den]
  ELSE [kind |-> "finite", num |-> num, den |-> den]

\* total_counts = np.sum(detections)
TotalCounts(detections) == SumSeq([i \in 1..Len(detections) |-> IF detections[i] THEN 1 ELSE 0])

\* mean_rate = total_counts / (len(detections) * config.time_bin * 1E-12)
MeanRate(config, detections) ==
  FloatDiv(2 * TotalCounts(detections), Len(detections) * config.time_bin)

\* qber = (dark_count_rate * time_bin * 1E-12) / (total_counts / len(detections))
Qber(config, detections) ==
  IF Len(detections) = 0 THEN FloatDiv(0, 0)
  ELSE FloatDiv(config.dark_count_rate * config.time_bin * Len(detections),
                4 * TotalCounts(detections))


(* ------------------------------ the state ------------------------------ *)

\* rng[g]: the state of generator g (np.random of one process)
\* frame[c]: the arguments and locals of invocation c, and where it stands
VARIABLES rng, frame

vars == <<rng, frame>>

\* the frame of an invocation that has not started: config_dict and the delay
\* argument as given, every local unset.  gen names the generator it draws
\* from and seed the state that generator is in; draws counts the values
\* drawn and trail lists the stage methods called.
NewFrame(config_dict, delay_arg, g) ==
  [pc |-> "validate_config", config_dict |-> config_dict, delay_arg |-> delay_arg,
   gen |-> g, seed |-> rng[g],
   config |-> <<>>, picks |-> <<>>, states |-> <<>>, intensity |-> <<>>,
   delay |-> 0, front_pad |-> <<>>, end_pad |-> <<>>, detections |-> <<>>,
   actual_delay |-> 0,
   time_points |-> <<>>, cross_corr |-> <<>>, optimal_lag |-> 0,
   sync_success |-> FALSE, total_counts |-> 0,
   mean_rate |-> FloatDiv(0, 1), qber |-> FloatDiv(0, 1),
   results |-> <<>>, draws |-> 0, trail |-> <<>>,
   exc |-> "", raised_at |-> "", text |-> <<>>]

Calls == DOMAIN frame

Cfg(c) == frame[c].config[1]

\* the positions of an invocation, in the order run passes them
Positions ==
  << "validate_config", "generate_states", "apply_channel_effects", "front_pad",
     "end_pad", "detect", "find_delay", "calculate_statistics", "package",
     "returned" >>

\* the stage methods, in the order run calls them (lines 209-223)
StageOrder ==
  << "validate_config", "generate_states", "apply_channel_effects", "find_delay",
     "calculate_statistics" >>

Rank(l) == CHOOSE i \in 1..Len(Positions) : Positions[i] = l

\* the stage method a position lies in
StageOf(l) == IF l \in {"front_pad", "end_pad", "detect"} THEN "apply_channel_effects" ELSE l

\* invocation c has completed the step at position l
Passed(c, l) ==
  Rank(IF frame[c].pc = "raised" THEN frame[c].raised_at ELSE frame[c].pc) > Rank(l)

\* an exception leaves the invocation from the position it is at
Raise(f, exc, text) ==
  [f EXCEPT !.pc = "raised", !.exc = exc, !.raised_at = f.pc, !.text = text]

\* run calls the stage method at the invocation's position
Enter(f) == [f EXCEPT !.trail = Append(@, f.pc)]

(* ------------------------------ the stages ----------------------------- *)

\* a run that goes on with the test configuration when validation fails
ValidateConfigLenient(c) ==
  /\ frame[c].pc = "validate_config"
  /\ LET f == Enter(frame[c])
         v == validate_config(f.config_dict)
     IN frame' = [frame EXCEPT ![c] =
          [f EXCEPT !.pc = "generate_states",
                    !.config = IF v.ok THEN v.config ELSE <<BuildConfig(BaseRaw)>>]]
  /\ UNCHANGED rng

\* run, line 209: config = self.validate_config(config_dict)
ValidateConfig(c) ==
  /\ frame[c].pc = "validate_config"
  /\ LET f == Enter(frame[c])
         v == validate_config(f.config_dict)
     IN frame' = [frame EXCEPT ![c] =
          IF v.ok THEN [f EXCEPT !.pc = "generate_states", !.config = v.config]
          ELSE Raise(f, v.exc, v.text)]
  /\ UNCHANGED rng

\* run, line 212: states, intensity = self.generate_states(config)
GenerateStates(c) ==
  /\ frame[c].pc = "generate_states"
  /\ LET f == Enter(frame[c])
         config == Cfg(c)
         n == config.block_size
         picks == ChoiceIndex(Words(rng[f.gen], n), config.signal_prob)
         states == StatesOf(config, picks)
     IN IF ChoiceRaises(config.signal_prob, n)
          THEN /\ frame' = [frame EXCEPT ![c] = Raise(f, "ValueError", <<"np.random.choice">>)]
               /\ UNCHANGED rng
          ELSE /\ frame' = [frame EXCEPT ![c] =
                    [f EXCEPT !.pc = "apply_channel_effects", !.picks = picks,
                              !.states = states,
                              !.intensity = IntensityOf(config, states),
                              !.draws = @ + n]]
               /\ rng' = [rng EXCEPT ![f.gen] = RngAfter(@, n)]

\* an apply_channel_effects that takes its random delay from a source no
\* seed controls
ChannelDelayUnseeded(c) ==
  /\ frame[c].pc = "apply_channel_effects"
  /\ \E w \in {0, 1} :
       frame' = [frame EXCEPT ![c] =
         [Enter(frame[c]) EXCEPT !.pc = "front_pad",
                                 !.delay = Cfg(c).max_offset + randint(w, 0, 1001)]]
  /\ UNCHANGED rng

\* run, line 215 and apply_channel_effects, lines 111-118: the attenuation,
\* the dark-count probability and the delay
ChannelDelay(c) ==
  /\ frame[c].pc = "apply_channel_effects"
  /\ LET f == Enter(frame[c])
         config == Cfg(c)
     IN IF AttenuationOverflows(config)
          THEN /\ frame' = [frame EXCEPT ![c] =
                    Raise(f, "OverflowError", <<"Numerical result out of range">>)]
               /\ UNCHANGED rng
        ELSE IF f.delay_arg = <<>>
          THEN /\ frame' = [frame EXCEPT ![c] =
                    [f EXCEPT !.pc = "front_pad",
                              !.delay = config.max_offset + randint(Word(rng[f.gen]), 0, 1001),
                              !.draws = @ + 1]]
               /\ rng' = [rng EXCEPT ![f.gen] = RngStep(@)]
          ELSE /\ frame' = [frame EXCEPT ![c] =
                    [f EXCEPT !.pc = "front_pad", !.delay = f.delay_arg[1]]]
               /\ UNCHANGED rng

\* one padding drawn by np.random.choice(..., size=delay), lines 121-130
Pad(c, at, next) ==
  /\ frame[c].pc = at
  /\ LET f == frame[c]
         config == Cfg(c)
         n == f.delay
         pad == StatesOf(config, ChoiceIndex(Words(rng[f.gen], n), config.signal_prob))
     IN IF ChoiceRaises(config.signal_prob, n)
          THEN /\ frame' = [frame EXCEPT ![c] = Raise(f, "ValueError", <<"np.random.choice">>)]
               /\ UNCHANGED rng
          ELSE /\ frame' = [frame EXCEPT ![c] =
                    [f EXCEPT !.pc = next, ![at] = pad, !.draws = @ + n]]
               /\ rng' = [rng EXCEPT ![f.gen] = RngAfter(@, n)]

FrontPad(c) == Pad(c, "front_pad", "end_pad")

EndPad(c) == Pad(c, "end_pad", "detect")

\* apply_channel_effects, lines 131-140: the detection events, returned with
\* the delay to run's detections and actual_delay
Detect(c) ==
  /\ frame[c].pc = "detect"
  /\ LET f == frame[c]
         extended_states == ExtendedStates(f.front_pad, f.states, f.end_pad)
         n == Len(extended_states)
     IN /\ frame' = [frame EXCEPT ![c] =
              [f EXCEPT !.pc = "find_delay",
                        !.detections = Detections(Cfg(c), extended_states, Words(rng[f.gen], n)),
                        !.actual_delay = f.delay,
                        !.draws = @ + n]]
        /\ rng' = [rng EXCEPT ![f.gen] = RngAfter(@, n)]

\* run, lines 218-220: find_delay(intensity, detections, config, actual_delay)
\* (np.argmax raises ValueError on the empty trace of an empty block)
FindDelay(c) ==
  /\ frame[c].pc = "find_delay"
  /\ LET f == Enter(frame[c])
         cross_corr == Correlate(f.intensity, f.detections)
         optimal_lag == ArgMax(cross_corr)
     IN frame' = [frame EXCEPT ![c] =
          IF cross_corr = <<>>
            THEN Raise(f, "ValueError", <<"attempt to get argmax of an empty sequence">>)
            ELSE [f EXCEPT !.pc = "calculate_statistics",
                           !.cross_corr = cross_corr,
                           !.optimal_lag = optimal_lag,
                           !.time_points = TimePoints(Len(cross_corr)),
                           !.sync_success = SyncSuccess(Cfg(c), optimal_lag, f.actual_delay)]]
  /\ UNCHANGED rng

\* run, line 223: calculate_statistics(detections, config)
CalculateStatistics(c) ==
  /\ frame[c].pc = "calculate_statistics"
  /\ LET f == Enter(frame[c])
     IN frame' = [frame EXCEPT ![c] =
          [f EXCEPT !.pc = "package",
                    !.total_counts = TotalCounts(f.detections),
                    !.mean_rate = MeanRate(Cfg(c), f.detections),
                    !.qber = Qber(Cfg(c), f.detections)]]
  /\ UNCHANGED rng

\* run, lines 226-249: the dictionary run returns
Results(f) ==
  [time_points |-> f.time_points, cross_correlation |-> f.cross_corr,
   counts |-> f.detections, peak_position |-> f.optimal_lag,
   statistics |-> [total_counts |-> f.total_counts, mean_count_rate |-> f.mean_rate,
                   qber |-> f.qber, sync_success |-> f.sync_success]]

Return(c) ==
  /\ frame[c].pc = "package"
  /\ frame' = [frame EXCEPT ![c].pc = "returned", ![c].results = <<Results(frame[c])>>]
  /\ UNCHANGED rng

(* --------------------------- specifications --------------------------- *)

\* one invocation, of any input, on a generator in any state
Init ==
  /\ rng \in [{1} -> 0..(RngStates - 1)]
  /\ \E d \in RawConfigs, a \in DelayArgs : frame = [c \in {1} |-> NewFrame(d, a, 1)]

Next ==
  \E c \in Calls :
    \/ ValidateConfig(c)
    \/ GenerateStates(c)
    \/ ChannelDelay(c)
    \/ FrontPad(c)
    \/ EndPad(c)
    \/ Detect(c)
    \/ FindDelay(c)
    \/ CalculateStatistics(c)
    \/ Return(c)

Spec == Init /\ [][Next]_vars

\* the configurations of the two-invocation specification
SeededConfigs ==
  {RawOf(2, mu2, p1, dc, 2, 0, 0, 2 * bs, 0) :
     mu2 \in PowerInputs, p1 \in {1}, dc \in DarkInputs, bs \in 1..MaxBlock}

\* two invocations of run on one configuration, each drawing from a
\* generator of its own (np.random of its own process), seeded in any way
InitSeeded ==
  /\ rng \in [{1, 2} -> 0..(RngStates - 1)]
  /\ \E d \in SeededConfigs : frame = [c \in {1, 2} |-> NewFrame(d, <<>>, c)]

SpecSeeded == InitSeeded /\ [][Next]_vars

\* two invocations of run on the one simulator of a process (app.py's
\* module-level simulator, called by the threads that serve the requests):
\* both draw from the process-wide np.random, a thread switch falling
\* between any two calls of it
InitShared ==
  /\ rng \in [{1} -> 0..(RngStates - 1)]
  /\ \E d \in SeededConfigs : frame = [c \in {1, 2} |-> NewFrame(d, <<>>, 1)]

SpecShared == InitShared /\ [][Next]_vars

\* the dictionary run returns for a valid config_dict when nothing but the
\* invocation itself draws from the generator, found in state s
SoloResults(config_dict, s) ==
  LET config == BuildConfig(config_dict)
      n == config.block_size
      states == StatesOf(config, ChoiceIndex(Words(s, n), config.signal_prob))
      intensity == IntensityOf(config, states)
      s1 == RngAfter(s, n)
      delay == config.max_offset + randint(Word(s1), 0, 1001)
      s2 == RngStep(s1)
      front_pad == StatesOf(config, ChoiceIndex(Words(s2, delay), config.signal_prob))
      s3 == RngAfter(s2, delay)
      end_pad == StatesOf(config, ChoiceIndex(Words(s3, delay), config.signal_prob))
      s4 == RngAfter(s3, delay)
      extended_states == ExtendedStates(front_pad, states, end_pad)
      detections == Detections(config, extended_states, Words(s4, Len(extended_states)))
      cross_corr == Correlate(intensity, detections)
      optimal_lag == ArgMax(cross_corr)
  IN [time_points |-> TimePoints(Len(cross_corr)), cross_correlation |-> cross_corr,
      counts |-> detections, peak_position |-> optimal_lag,
      statistics |-> [total_counts |-> TotalCounts(detections),
                      mean_count_rate |-> MeanRate(config, detections),
                      qber |-> Qber(config, detections),
                      sync_success |-> SyncSuccess(config, optimal_lag, delay)]]


(* ------------------------------- claims -------------------------------- *)

\* the raw value of field i of a dictionary whose nine fields are numbers
Field(d, i) == d[Schema[i].group][Schema[i].key].val

AllNumbers(d) == FirstFailure(d) = 0

\* the bounds the data model states for a configuration
SpecValid(d) ==
  /\ AllNumbers(d)
  /\ Field(d, 1) >= 0 /\ Field(d, 2) >= 0
  /\ Field(d, 3) \in 0..2
  /\ Field(d, 4) >= 0 /\ Field(d, 5) > 0 /\ Field(d, 6) >= 0 /\ Field(d, 7) >= 0
  /\ Field(d, 8) >= 2 /\ Field(d, 8) % 2 = 0
  /\ Field(d, 9) >= 0 /\ Field(d, 9) % 2 = 0

\* C1: validate_config raises, and returns no SimulationConfig, for every
\* raw configuration whose p1 lies outside [0, 1] or whose blockSize is not a
\* positive integer.
C1_RejectsOutOfRange ==
  \A c \in Calls :
    LET d == frame[c].config_dict IN
    (/\ AllNumbers(d)
     /\ \/ Field(d, 3) \notin 0..2
        \/ Field(d, 8) < 2
        \/ Field(d, 8) % 2 # 0
     /\ Passed(c, "validate_config"))
    => (frame[c].pc = "raised" /\ frame[c].raised_at = "validate_config"
        /\ frame[c].config = <<>>)

\* C2: run fails only at the validation stage: an invocation that raises
\* raises in validate_config, and no later stage ever raises.
C2_RaisesOnlyInValidation ==
  \A c \in Calls :
    frame[c].pc = "raised" => frame[c].raised_at = "validate_config"

C6_FirstArgMax ==
  \A c \in Calls :
    Passed(c, "find_delay") =>
      LET f == frame[c] a == f.cross_corr lag == f.optimal_lag IN
      /\ lag \in 0..(Len(a) - 1)
      /\ \A k \in 1..Len(a) : a[k] <= a[lag + 1]
      /\ \A k \in 1..lag : a[k] < a[lag + 1]
      /\ f.pc = "returned" => f.results[1].peak_position = lag

C6_Witness ==
  \E c \in Calls :
    LET f == frame[c] a == f.cross_corr IN
    /\ f.pc = "returned"
    /\ f.optimal_lag >= 1
    /\ \E k \in (f.optimal_lag + 2)..Len(a) : a[k] = a[f.optimal_lag + 1]

\* C7: find_delay reports success exactly when
\* |found - actual| <= |sync_error * 1e-6 * block_size|; with sync_error = 0
\* that is exactly when the two are equal; and an invocation whose
\* synchronisation failed goes on to return, it does not raise.
C7_SyncSuccess ==
  \A c \in Calls :
    Passed(c, "find_delay") =>
      LET f == frame[c]
          miss == Abs(f.optimal_lag - f.actual_delay)
      IN /\ f.sync_success <=> (2 * miss <= Abs(Cfg(c).sync_error_ppm * Cfg(c).block_size))
         /\ Cfg(c).sync_error_ppm = 0 => (f.sync_success <=> miss = 0)
         /\ ~f.sync_success => f.pc # "raised"
         /\ f.pc = "returned" => f.results[1].statistics.sync_success = f.sync_success

C7_Witness ==
  \E c \in Calls :
    /\ frame[c].pc = "returned"
    /\ Cfg(c).sync_error_ppm = 0
    /\ Abs(frame[c].optimal_lag - frame[c].actual_delay) = 1
    /\ ~frame[c].results[1].statistics.sync_success

\* C8: when the detection sequence holds no true entry, calculate_statistics
\* does not raise and the QBER it returns, which run puts in
\* statistics.qber, is neither NaN nor an infinity.
C8_QberSentinel ==
  \A c \in Calls :
    (Passed(c, "calculate_statistics") /\ frame[c].total_counts = 0) =>
      /\ frame[c].pc # "raised"
      /\ frame[c].qber.kind \notin {"nan", "inf", "-inf"}
      /\ frame[c].pc = "returned" =>
           frame[c].results[1].statistics.qber.kind \notin {"nan", "inf", "-inf"}

\* C9: for every valid configuration generate_states returns, without
\* raising, a pulse sequence of length block_size whose elements are
\* signal_power or decoy_power, and an indicator sequence of the same length
\* with entries 0 or 1.
C9_PulseSequence ==
  \A c \in Calls :
    /\ Passed(c, "generate_states") =>
         LET f == frame[c] IN
         /\ Len(f.states) = Cfg(c).block_size
         /\ \A i \in 1..Len(f.states) :
              f.states[i] \in {Cfg(c).signal_power, Cfg(c).decoy_power}
         /\ Len(f.intensity) = Cfg(c).block_size
         /\ \A i \in 1..Len(f.intensity) : f.intensity[i] \in {0, 1}
    /\ (SpecValid(frame[c].config_dict) /\ frame[c].pc = "raised") =>
         frame[c].raised_at # "generate_states"

C9_Witness ==
  \E c \in Calls :
    /\ Passed(c, "generate_states")
    /\ SpecValid(frame[c].config_dict)
    /\ Cfg(c).signal_power # Cfg(c).decoy_power
    /\ frame[c].states = <<Cfg(c).decoy_power, Cfg(c).signal_power>>

\* C10: the indicator sequence is the Bernoulli outcome of each trial: entry
\* i is 1 exactly when trial i picked the signal state, also when
\* signal_power = decoy_power.
C10_IndicatorIsOutcome ==
  \A c \in Calls :
    Passed(c, "generate_states") =>
      \A i \in 1..Len(frame[c].intensity) :
        frame[c].intensity[i] = 1 <=> frame[c].picks[i] = 0

\* a required field of the dictionary, or the group it lies in, is missing
MissingField(d) ==
  \E i \in 1..Len(Schema) :
    Schema[i].group \notin DOMAIN d \/ Schema[i].key \notin DOMAIN d[Schema[i].group]

\* C11: for every raw configuration in which one of the nine required
\* fields, or its group, is missing, validate_config raises a ValueError and
\* returns no configuration (no default stands in for the field).
C11_MissingFieldRaisesValueError ==
  \A c \in Calls :
    (MissingField(frame[c].config_dict) /\ frame[c].pc # "validate_config") =>
      /\ frame[c].pc = "raised"
      /\ frame[c].raised_at = "validate_config"
      /\ frame[c].exc = "ValueError"
      /\ frame[c].config = <<>>

\* the words of a message
MessageWords(t) == {t[k] : k \in 1..Len(t)}

\* field i of the dictionary is there and is not a number
NotCoercible(d, i) ==
  /\ Schema[i].group \in DOMAIN d
  /\ Schema[i].key \in DOMAIN d[Schema[i].group]
  /\ d[Schema[i].group][Schema[i].key].kind # "number"

\* C12: whenever validation fails with its ValueError because a field
\* cannot be coerced to its declared type, the error names the path of the
\* offending field: its group and its name.
C12_ErrorNamesFieldPath ==
  \A c \in Calls :
    LET f == frame[c]
        i == FirstFailure(f.config_dict)
    IN (/\ f.pc = "raised" /\ f.raised_at = "validate_config"
        /\ f.exc = "ValueError"
        /\ i # 0 /\ NotCoercible(f.config_dict, i))
       => (Schema[i].group \in MessageWords(f.text) /\ Schema[i].key \in MessageWords(f.text))

\* C13: concurrent invocations of run do not interfere: whatever the
\* interleaving of its draws with those of another invocation, an invocation
\* returns the result it returns when it runs alone from the generator
\* state it was started on.
C13_NoInterference ==
  \A c \in Calls :
    frame[c].pc = "returned" =>
      frame[c].results[1] = SoloResults(frame[c].config_dict, frame[c].seed)

\* C14: for a valid configuration calculate_statistics returns total_counts
\* equal to the number of true entries of the detection sequence, between 0
\* and its length, and, when at least one entry is true, a QBER estimate
\* within [0, 1].
C14_CountsAndQberRange ==
  \A c \in Calls :
    (Passed(c, "calculate_statistics") /\ SpecValid(frame[c].config_dict)) =>
      LET f == frame[c] IN
      /\ f.total_counts = Cardinality({i \in 1..Len(f.detections) : f.detections[i]})
      /\ f.total_counts \in 0..Len(f.detections)
      /\ f.total_counts > 0 =>
           (f.qber.kind = "finite" /\ 0 <= f.qber.num /\ f.qber.num <= f.qber.den)

\* C15: in every run the stage methods are called in the order
\* validate_config, generate_states, apply_channel_effects, find_delay,
\* calculate_statistics, each at most once; what a stage produces exists
\* only once that stage has run, so a stage consumes outputs of earlier
\* stages only; and when validation fails no later stage is called and no
\* random value is drawn.
C15_StageOrder ==
  \A c \in Calls :
    LET f == frame[c] IN
    /\ Len(f.trail) <= Len(StageOrder)
    /\ f.trail = SubSeq(StageOrder, 1, Len(f.trail))
    /\ ~Passed(c, "validate_config") => f.config = <<>>
    /\ ~Passed(c, "generate_states") => (f.states = <<>> /\ f.intensity = <<>>)
    /\ ~Passed(c, "detect") => f.detections = <<>>
    /\ ~Passed(c, "find_delay") => (f.cross_corr = <<>> /\ f.time_points = <<>>)
    /\ ~Passed(c, "package") => f.results = <<>>
    /\ ~validate_config(f.config_dict).ok =>
         /\ Len(f.trail) <= 1
         /\ f.draws = 0
         /\ rng[f.gen] = f.seed

C15_Witness ==
  \E c \in Calls :
    /\ frame[c].pc = "returned"
    /\ frame[c].trail = StageOrder
    /\ frame[c].draws > Cfg(c).block_size + 1
    /\ frame[c].results # <<>>

\* the number of pulses of a sequence that carry the signal power
SignalPulses(config, seq) ==
  Cardinality({i \in 1..Len(seq) : seq[i] = config.signal_power})

\* the detection sequence fires exactly on the signal pulses of the padded
\* sequence: every signal pulse detected, no decoy pulse, no dark count
IdealDetection(c) ==
  LET f == frame[c]
      extended_states == ExtendedStates(f.front_pad, f.states, f.end_pad)
  IN f.detections =
       [i \in 1..Len(extended_states) |-> extended_states[i] = Cfg(c).signal_power]

====
